---- MODULE Spec2Model ----
(***************************************************************************)
(* Model of the price prediction pipeline of Price-Prediction-System:      *)
(*   utils/data_processor.py  prepare_data, create_sequences               *)
(*   models/lstm_model.py     StockPredictor                               *)
(*   routes/main.py, app.py   the /predict request handler                 *)
(*                                                                         *)
(* Floating point numbers are modelled as exact rationals [n, d] in lowest *)
(* terms with d > 0; [n |-> 0, d |-> 0] is NaN, which stands for every     *)
(* non-finite float.                                                       *)
(***************************************************************************)
EXTENDS Integers, Sequences, FiniteSets, TLC

(***************************************************************************)
(* Bounds of the model.                                                    *)
(***************************************************************************)
\* longest fetched series, in rows
MaxRows == 72
\* longest series handed to the pure functions
MaxLen == 4
\* longest frame handed to validate_and_clean_data
MaxFrame == 3
\* longest list handed to create_chart_data directly
MaxChart == 2
\* prediction ids a view or delete request may name
MaxId == 2
\* largest user id a registration is given
MaxUserId == 5
\* largest sequence_length handed to the pure functions
MaxSeq == 3
\* largest forecast horizon handed to predict_future directly
MaxDays == 3

(***************************************************************************)
(* Program constants.                                                      *)
(***************************************************************************)
SEQUENCE_LENGTH == 60
PREDICTION_DAYS == 30
\* the "+ 10" of prepare_data's minimum row requirement
EXTRA_ROWS == 10

(***************************************************************************)
(* Numbers.                                                                *)
(***************************************************************************)
Abs(i) == IF i < 0 THEN -i ELSE i

RECURSIVE GCD(_, _)
GCD(a, b) == IF b = 0 THEN a ELSE GCD(b, a % b)

\* the rational n/d (d # 0) in lowest terms with a positive denominator
Frac(n, d) ==
    LET g == GCD(Abs(n), Abs(d))
        s == IF d < 0 THEN -1 ELSE 1
    IN  [n |-> (s * n) \div g, d |-> (s * d) \div g]

R(i) == [n |-> i, d |-> 1]
NaN == [n |-> 0, d |-> 0]

IsFinite(x) == x.d # 0
IsNaN(x) == x.d = 0

\* IEEE arithmetic on the values the model uses (finite values and NaN)
RAdd(a, b) == IF ~IsFinite(a) \/ ~IsFinite(b) THEN NaN
              ELSE Frac(a.n * b.d + b.n * a.d, a.d * b.d)
RNeg(a) == [n |-> -a.n, d |-> a.d]
RSub(a, b) == RAdd(a, RNeg(b))
RMul(a, b) == IF ~IsFinite(a) \/ ~IsFinite(b) THEN NaN
              ELSE Frac(a.n * b.n, a.d * b.d)
\* numpy division: x / 0 is non-finite, it does not raise
RDiv(a, b) == IF ~IsFinite(a) \/ ~IsFinite(b) \/ b.n = 0 THEN NaN
              ELSE Frac(a.n * b.d, a.d * b.n)
\* comparisons with NaN are False
RLess(a, b) == IsFinite(a) /\ IsFinite(b) /\ a.n * b.d < b.n * a.d
RGreater(a, b) == RLess(b, a)
RGeq(a, b) == IsFinite(a) /\ IsFinite(b) /\ a.n * b.d >= b.n * a.d

Range(s) == {s[i] : i \in 1..Len(s)}
AllFinite(s) == \A i \in 1..Len(s) : IsFinite(s[i])

\* np.min / np.max of a non-empty array of finite values
RMin(s) == CHOOSE x \in Range(s) : \A z \in Range(s) : ~RLess(z, x)
RMax(s) == CHOOSE x \in Range(s) : \A z \in Range(s) : ~RLess(x, z)

\* Python slices a[-k:] and a[k:] (0-based k) on 1-based sequences
LastN(s, k) == IF Len(s) <= k THEN s ELSE SubSeq(s, Len(s) - k + 1, Len(s))
DropFirst(s, k) == IF Len(s) <= k THEN << >> ELSE SubSeq(s, k + 1, Len(s))
FirstN(s, k) == IF Len(s) <= k THEN s ELSE SubSeq(s, 1, k)

(***************************************************************************)
(* sklearn MinMaxScaler(feature_range=(0, 1)), as prepare_data uses it.    *)
(***************************************************************************)
\* _handle_zeros_in_scale: a zero data range is replaced by 1
HandleZeros(range) == IF range.n = 0 THEN R(1) ELSE range

\* scaler.fit: data_min_, data_max_, scale_ = 1 / range, min_ = 0 - data_min * scale_
ScalerFit(prices) ==
    LET lo == RMin(prices)
        hi == RMax(prices)
        scale == RDiv(R(1), HandleZeros(RSub(hi, lo)))
    IN  [data_min |-> lo, data_max |-> hi, scale_ |-> scale,
         min_ |-> RSub(R(0), RMul(lo, scale))]

\* variant: the offset min_ is left out
ScalerTransform_nomin(sc, x) == RMul(x, sc.scale_)

\* scaler.transform: X * scale_ + min_   (clip=False)
ScalerTransform(sc, x) == RAdd(RMul(x, sc.scale_), sc.min_)

\* variant: the inverse of a scaler fitted on a constant series is that constant
ScalerInverse_collapse(sc, x) ==
    IF sc.data_max = sc.data_min THEN sc.data_min
    ELSE RDiv(RSub(x, sc.min_), sc.scale_)

\* scaler.inverse_transform: (X - min_) / scale_
ScalerInverse(sc, x) == RDiv(RSub(x, sc.min_), sc.scale_)

FitTransform(sc, prices) == [i \in 1..Len(prices) |-> ScalerTransform(sc, prices[i])]

(***************************************************************************)
(* create_sequences(data, sequence_length)                                 *)
(***************************************************************************)
\* the loop body's test: the window holds neither NaN nor inf
ValidSequence(sequence) == AllFinite(sequence)

\* the 0-based loop indices i in range(sequence_length, len(data)) whose
\* window data[i-S:i] passes the test, in loop order
RECURSIVE KeptIndices(_, _, _)
KeptIndices(data, S, i) ==
    IF i >= Len(data) THEN << >>
    ELSE (IF ValidSequence(SubSeq(data, i - S + 1, i)) THEN << i >> ELSE << >>)
         \o KeptIndices(data, S, i + 1)

\* variant: the loop starts one index late
create_sequences_late(data, S) ==
    IF Len(data) <= S THEN [X |-> << >>, y |-> << >>]
    ELSE LET kept == KeptIndices(data, S, S + 1)
         IN  [X |-> [k \in 1..Len(kept) |-> SubSeq(data, kept[k] - S + 1, kept[k])],
              y |-> [k \in 1..Len(kept) |-> data[kept[k] + 1]]]

\* variant: the target is the last element of the window
create_sequences_target(data, S) ==
    IF Len(data) <= S THEN [X |-> << >>, y |-> << >>]
    ELSE LET kept == KeptIndices(data, S, S)
         IN  [X |-> [k \in 1..Len(kept) |-> SubSeq(data, kept[k] - S + 1, kept[k])],
              y |-> [k \in 1..Len(kept) |-> data[kept[k]]]]

create_sequences(data, S) ==
    IF Len(data) <= S THEN [X |-> << >>, y |-> << >>]
    ELSE LET kept == KeptIndices(data, S, S)
         IN  [X |-> [k \in 1..Len(kept) |-> SubSeq(data, kept[k] - S + 1, kept[k])],
              y |-> [k \in 1..Len(kept) |-> data[kept[k] + 1]]]

(***************************************************************************)
(* The train/test split of prepare_data.                                   *)
(***************************************************************************)
\* int(n * 0.8): the double 0.8 lies just above 4/5, so truncating the
\* product gives floor(8n / 10) for every n a series can have
IntOfFourFifths(n) == (8 * n) \div 10

\* variant: no minimum of one training window
TrainSize_nomin(n) == IntOfFourFifths(n)

TrainSize(n) == IF IntOfFourFifths(n) < 1 THEN 1 ELSE IntOfFourFifths(n)

\* variant: the test slice starts one window early
SplitWindows_overlap(X, y) ==
    LET train_size == TrainSize(Len(X))
    IN  [X_train |-> FirstN(X, train_size),
         y_train |-> FirstN(y, train_size),
         X_test  |-> IF train_size < Len(X) THEN DropFirst(X, train_size - 1) ELSE << >>]

SplitWindows(X, y) ==
    LET train_size == TrainSize(Len(X))
    IN  [X_train |-> FirstN(X, train_size),
         y_train |-> FirstN(y, train_size),
         X_test  |-> IF train_size < Len(X) THEN DropFirst(X, train_size) ELSE << >>]

(***************************************************************************)
(* StockPredictor: the regressor and predict_future.                       *)
(***************************************************************************)
\* The trained network is a deterministic function of its weights and of
\* the window it is given.  The weights [a, c, b] stand for the Keras
\* weights: the output is a * (newest element) + c * (oldest element) + b.
Weights ==
    { [a |-> 0, c |-> 0, b |-> Frac(1, 2)],
      [a |-> 1, c |-> 0, b |-> R(0)],
      [a |-> 1, c |-> -1, b |-> Frac(1, 4)] }

\* self.model.predict(window.reshape((1, S, 1)))[0, 0]
ModelPredict(w, window) ==
    RAdd(RAdd(RMul(R(w.a), window[Len(window)]), RMul(R(w.c), window[1])), w.b)

\* variant: a short window is padded with its last element
FitLength_padlast(cur, S) ==
    IF Len(cur) > S THEN LastN(cur, S)
    ELSE IF Len(cur) < S
         THEN LET pad_length == S - Len(cur)
              IN  [i \in 1..S |-> IF i <= pad_length THEN cur[Len(cur)]
                                  ELSE cur[i - pad_length]]
         ELSE cur

\* the length adjustment at the head of predict_future's loop body
\* (current_sequence is not empty)
FitLength(cur, S) ==
    IF Len(cur) > S THEN LastN(cur, S)
    ELSE IF Len(cur) < S
         THEN LET pad_length == S - Len(cur)
              IN  [i \in 1..S |-> IF i <= pad_length THEN cur[1] ELSE cur[i - pad_length]]
         ELSE cur

\* variant: a non-finite prediction is fed back but not reported
FutureStep_skip(st, sc, w, S) ==
    IF Len(st.cur) = 0 /\ S > 0
    THEN [st EXCEPT !.error = "IndexError"]
    ELSE LET window == FitLength(st.cur, S)
             next_price_scaled == ModelPredict(w, window)
             next_price == ScalerInverse(sc, next_price_scaled)
         IN  [st EXCEPT !.cur = Append(DropFirst(window, 1), next_price_scaled),
                        !.predictions = IF IsFinite(next_price)
                                        THEN Append(st.predictions, next_price)
                                        ELSE st.predictions,
                        !.inputs = Append(st.inputs, window),
                        !.outputs = Append(st.outputs, next_price_scaled)]

\* variant: the price, not the normalized output, is fed back
FutureStep_unscaled(st, sc, w, S) ==
    IF Len(st.cur) = 0 /\ S > 0
    THEN [st EXCEPT !.error = "IndexError"]
    ELSE LET window == FitLength(st.cur, S)
             next_price_scaled == ModelPredict(w, window)
             next_price == ScalerInverse(sc, next_price_scaled)
         IN  [st EXCEPT !.cur = Append(DropFirst(window, 1), next_price),
                        !.predictions = Append(st.predictions, next_price),
                        !.inputs = Append(st.inputs, window),
                        !.outputs = Append(st.outputs, next_price_scaled)]

\* variant: the window is slid in place in the array the caller passed
FutureStep_inplace(st, sc, w, S) ==
    IF Len(st.cur) = 0 /\ S > 0
    THEN [st EXCEPT !.error = "IndexError"]
    ELSE LET window == FitLength(st.cur, S)
             next_price_scaled == ModelPredict(w, window)
             next_price == ScalerInverse(sc, next_price_scaled)
             slid == Append(DropFirst(window, 1), next_price_scaled)
         IN  [st EXCEPT !.cur = slid,
                        !.last_sequence = slid,
                        !.predictions = Append(st.predictions, next_price),
                        !.inputs = Append(st.inputs, window),
                        !.outputs = Append(st.outputs, next_price_scaled)]

\* one iteration of predict_future's loop; st.inputs and st.outputs record
\* the windows given to the network and its normalized outputs
FutureStep(st, sc, w, S) ==
    IF Len(st.cur) = 0 /\ S > 0
    THEN [st EXCEPT !.error = "IndexError"]     \* current_sequence[0] on an empty array
    ELSE LET window == FitLength(st.cur, S)
             next_price_scaled == ModelPredict(w, window)
             next_price == ScalerInverse(sc, next_price_scaled)
         IN  [st EXCEPT !.cur = Append(DropFirst(window, 1), next_price_scaled),
                        !.predictions = Append(st.predictions, next_price),
                        !.inputs = Append(st.inputs, window),
                        !.outputs = Append(st.outputs, next_price_scaled)]

RECURSIVE FutureLoop(_, _, _, _, _)
FutureLoop(st, sc, w, S, remaining) ==
    IF remaining <= 0 \/ st.error # "none" THEN st
    ELSE FutureLoop(FutureStep(st, sc, w, S), sc, w, S, remaining - 1)

\* predict_future(last_sequence, scaler, days) of a predictor with weights w
\* and sequence_length S: error = "none" means it returned predictions.
\* cur is current_sequence, a copy (last_sequence.copy().flatten()) that the
\* loop rebinds; last_sequence is the caller's array, which no statement
\* of the function writes to.
predict_future(last_sequence, sc, w, S, days) ==
    FutureLoop([cur |-> last_sequence, predictions |-> << >>, inputs |-> << >>,
                outputs |-> << >>, error |-> "none",
                last_sequence |-> last_sequence], sc, w, S, days)

(***************************************************************************)
(* prepare_data(stock_data, sequence_length)                               *)
(***************************************************************************)
\* one row of the fetched frame
Row(date, open, high, low, close, volume) ==
    [date |-> date, open |-> open, high |-> high, low |-> low,
     close |-> close, volume |-> volume]

RowHasNaN(row) ==
    IsNaN(row.open) \/ IsNaN(row.high) \/ IsNaN(row.low) \/ IsNaN(row.close)
        \/ IsNaN(row.volume)

\* stock_data.dropna()
DropNa(rows) == SelectSeq(rows, LAMBDA row : ~RowHasNaN(row))

\* stock_data['Close'].values
ClosePrices(rows) == [i \in 1..Len(rows) |-> rows[i].close]

\* np.nan_to_num(prices, nan=0.0, ...), applied when some price is not finite
NanToNum(prices) ==
    IF AllFinite(prices) THEN prices
    ELSE [i \in 1..Len(prices) |-> IF IsFinite(prices[i]) THEN prices[i] ELSE R(0)]

NoPrep == [error |-> "not run", steps |-> << >>, prices |-> << >>,
           scaler |-> << >>, scaled_data |-> << >>, X_train |-> << >>,
           y_train |-> << >>, X_test |-> << >>, last_sequence |-> << >>]

\* a ValueError raised by prepare_data after the steps named
PrepRaise(error, steps) == [NoPrep EXCEPT !.error = error, !.steps = steps]

\* variant: the minimum is sequence_length rows
MinRowsNeeded_nomargin(S) == S

\* variant: one row more than a window
MinRowsNeeded_one(S) == S + 1

\* the row count below which prepare_data raises "Insufficient data"
MinRowsNeeded(S) == S + EXTRA_ROWS

\* variant: no check of the row count, of the windows or of the training set
prepare_data_unguarded(stock_data, S) ==
    IF Len(stock_data) = 0 THEN PrepRaise("Stock data is empty or None", << >>)
    ELSE
    LET rows == DropNa(stock_data) IN
    IF Len(rows) = 0 THEN PrepRaise("Insufficient data", << "Sanitizing" >>)
    ELSE
    LET prices == NanToNum(ClosePrices(rows))
        scaler == ScalerFit(prices)
        scaled_data == FitTransform(scaler, prices)
        seqs == create_sequences(scaled_data, S)
        split == IF Len(seqs.X) = 0
                 THEN [X_train |-> << >>, y_train |-> << >>, X_test |-> << >>]
                 ELSE SplitWindows(seqs.X, seqs.y)
    IN  [error |-> "none",
         steps |-> << "Sanitizing", "Scaling", "Windowing" >>,
         prices |-> prices,
         scaler |-> scaler, scaled_data |-> scaled_data,
         X_train |-> split.X_train, y_train |-> split.y_train,
         X_test |-> split.X_test,
         last_sequence |-> LastN(scaled_data, S)]

\* The value returned is (X_train, y_train, X_test, scaler, last_sequence);
\* prices, scaled_data and steps record the locals and the order in which
\* the function produced them.  A frame always has its Close column.
prepare_data(stock_data, S) ==
    IF Len(stock_data) = 0 THEN PrepRaise("Stock data is empty or None", << >>)
    ELSE
    LET rows == DropNa(stock_data) IN
    IF Len(rows) < MinRowsNeeded(S) THEN PrepRaise("Insufficient data", << "Sanitizing" >>)
    ELSE
    LET prices == NanToNum(ClosePrices(rows))
        scaler == ScalerFit(prices)
        scaled_data == FitTransform(scaler, prices)
        seqs == create_sequences(scaled_data, S)
    IN
    IF Len(seqs.X) = 0
    THEN PrepRaise("No sequences created", << "Sanitizing", "Scaling", "Windowing" >>)
    ELSE
    LET split == SplitWindows(seqs.X, seqs.y) IN
    IF Len(split.X_train) = 0
    THEN PrepRaise("No training data created", << "Sanitizing", "Scaling", "Windowing" >>)
    ELSE [error |-> "none",
          steps |-> << "Sanitizing", "Scaling", "Windowing" >>,
          prices |-> prices,
          scaler |-> scaler, scaled_data |-> scaled_data,
          X_train |-> split.X_train, y_train |-> split.y_train,
          X_test |-> split.X_test,
          last_sequence |-> LastN(scaled_data, S)]

\* StockPredictor.predict(X_test, scaler): inverse-transformed outputs
predict(X_test, sc, w) ==
    IF Len(X_test) = 0 THEN << >>
    ELSE [i \in 1..Len(X_test) |-> ScalerInverse(sc, ModelPredict(w, X_test[i]))]

(***************************************************************************)
(* validate_and_clean_data(stock_data)                                     *)
(***************************************************************************)
\* stock_data.dropna(subset=['Open', 'High', 'Low', 'Close', 'Volume'])
DropNaSubset(rows) == SelectSeq(rows, LAMBDA row : ~RowHasNaN(row))

\* variant: a price of zero passes the price filters
ValidPrices_nonneg(row) ==
    /\ RGeq(row.open, R(0)) /\ RGeq(row.high, R(0))
    /\ RGeq(row.low, R(0)) /\ RGeq(row.close, R(0))

\* the four filters stock_data[stock_data[col] > 0]
ValidPrices(row) ==
    /\ RGreater(row.open, R(0)) /\ RGreater(row.high, R(0))
    /\ RGreater(row.low, R(0)) /\ RGreater(row.close, R(0))

\* the filter stock_data[stock_data['Volume'] >= 0]
ValidVolume(row) == RGeq(row.volume, R(0))

\* stock_data.sort_index(): the rows in ascending order of their dates; the
\* default sort is not stable, so rows of one date come in any order
SortIndexResults(rows) ==
    LET n == Len(rows)
        perms == { p \in [1..n -> 1..n] : \A i, j \in 1..n : p[i] = p[j] => i = j }
    IN  { [i \in 1..n |-> rows[p[i]]] : p \in
            { q \in perms : \A i, j \in 1..n :
                                i < j => rows[q[i]].date <= rows[q[j]].date } }

\* every value the function can return, or the error it raises
validate_and_clean_data(stock_data) ==
    IF Len(stock_data) = 0
    THEN { [error |-> "Stock data is empty", rows |-> << >>] }
    ELSE LET complete == DropNaSubset(stock_data)
             priced == SelectSeq(complete, ValidPrices)
             traded == SelectSeq(priced, ValidVolume)
         IN  { [error |-> "none", rows |-> sorted] : sorted \in SortIndexResults(traded) }

(***************************************************************************)
(* create_chart_data(dates, prices, name)                                  *)
(***************************************************************************)
\* Dates are day numbers, day 1 being Monday 2024-01-01; NaT is the missing
\* timestamp of a DatetimeIndex.
NaT == 0

\* an argument of create_chart_data: None, an object that is not iterable,
\* or an array or list of items
NoneArg == [kind |-> "None", items |-> << >>]
ScalarArg == [kind |-> "scalar", items |-> << >>]
ListArg(items) == [kind |-> "list", items |-> items]

\* the items of a date argument: a timestamp, NaT, a string
DateItem(date) ==
    IF date = NaT THEN [kind |-> "nat", day |-> 0] ELSE [kind |-> "date", day |-> date]
TextDate(day) == [kind |-> "str", day |-> day]
\* the items of a price argument: a number, an object float() rejects
PriceItem(v) == [kind |-> "float", v |-> v]
TextPrice == [kind |-> "text", v |-> NaN]

DaysInMonth(y, m) ==
    IF m = 2 THEN (IF y % 4 = 0 THEN 29 ELSE 28)
    ELSE IF m \in {4, 6, 9, 11} THEN 30 ELSE 31

RECURSIVE YMDFrom(_, _, _)
YMDFrom(y, m, d) ==
    IF d <= DaysInMonth(y, m) THEN [kind |-> "ymd", y |-> y, m |-> m, d |-> d]
    ELSE IF m = 12 THEN YMDFrom(y + 1, 1, d - DaysInMonth(y, m))
    ELSE YMDFrom(y, m + 1, d - DaysInMonth(y, m))

\* date.strftime('%Y-%m-%d') of a timestamp; a string is taken as it is
FormatDate(item) ==
    IF item.kind = "date" THEN YMDFrom(2024, 1, item.day)
    ELSE [kind |-> "text", y |-> 0, m |-> 0, d |-> item.day]

\* float(price), 0.0 when float() raises ValueError or TypeError
FormatPrice(item) == IF item.kind = "float" THEN item.v ELSE R(0)

\* Python's min and max of a non-empty list of floats keep the value they
\* hold unless the next one compares less (greater).  Every comparison with
\* NaN is false: a NaN in first place is kept to the end, a NaN further on
\* is never taken, so the result is the first element when that is NaN and
\* the least (greatest) of the other elements otherwise.
PyMin(prices) ==
    IF prices[1] = NaN THEN NaN
    ELSE CHOOSE x \in Range(prices) :
             x # NaN /\ \A y \in Range(prices) : ~RLess(y, x)
PyMax(prices) ==
    IF prices[1] = NaN THEN NaN
    ELSE CHOOSE x \in Range(prices) :
             x # NaN /\ \A y \in Range(prices) : ~RGreater(y, x)

\* Python's sum, from 0 on; the additions are exact here, so they are
\* grouped by halves
RECURSIVE PySumFrom(_, _, _)
PySumFrom(prices, lo, hi) ==
    IF lo > hi THEN R(0)
    ELSE IF lo = hi THEN RAdd(R(0), prices[lo])
    ELSE LET mid == (lo + hi) \div 2
         IN  RAdd(PySumFrom(prices, lo, mid), PySumFrom(prices, mid + 1, hi))
PySum(prices) == PySumFrom(prices, 1, Len(prices))

ChartName(name, suffix) == [base |-> name, suffix |-> suffix]
YMD(y, m, d) == [kind |-> "ymd", y |-> y, m |-> m, d |-> d]

\* variant: the fallback keeps the name it was given
FallbackData_unnamed(name) ==
    [labels |-> << YMD(2025, 1, 1), YMD(2025, 1, 2), YMD(2025, 1, 3) >>,
     prices |-> << R(100), R(102), R(101) >>,
     name |-> ChartName(name, ""),
     min_price |-> R(100), max_price |-> R(102), avg_price |-> R(101)]

\* the dictionary the except branch returns
FallbackData(name) ==
    [labels |-> << YMD(2025, 1, 1), YMD(2025, 1, 2), YMD(2025, 1, 3) >>,
     prices |-> << R(100), R(102), R(101) >>,
     name |-> ChartName(name, " (Error)"),
     min_price |-> R(100), max_price |-> R(102), avg_price |-> R(101)]

\* Every exception raised in the body is caught by the function's own
\* except branch: the ValueErrors it raises itself, the TypeError of len()
\* on an object without a length, the ValueError of NaT.strftime.
create_chart_data(dates, prices, name) ==
    IF dates.kind = "None" \/ prices.kind = "None" THEN FallbackData(name)
    ELSE IF dates.kind # "list" \/ prices.kind # "list" THEN FallbackData(name)
    ELSE IF Len(dates.items) = 0 \/ Len(prices.items) = 0 THEN FallbackData(name)
    ELSE
    LET min_length == IF Len(dates.items) < Len(prices.items)
                      THEN Len(dates.items) ELSE Len(prices.items)
        dates_list == FirstN(dates.items, min_length)
        prices_list == FirstN(prices.items, min_length)
    IN
    IF \E i \in 1..min_length : dates_list[i].kind = "nat" THEN FallbackData(name)
    ELSE
    LET formatted_dates == [i \in 1..min_length |-> FormatDate(dates_list[i])]
        formatted_prices == [i \in 1..min_length |-> FormatPrice(prices_list[i])]
    IN  [labels |-> formatted_dates,
         prices |-> formatted_prices,
         name |-> ChartName(name, ""),
         min_price |-> PyMin(formatted_prices),
         max_price |-> PyMax(formatted_prices),
         avg_price |-> RDiv(PySum(formatted_prices), R(min_length))]

\* pd.date_range(start, periods, freq='B'): the first business days from
\* start on
IsBusinessDay(day) == (day - 1) % 7 < 5
RECURSIVE BusinessDays(_, _)
BusinessDays(start, periods) ==
    IF periods <= 0 THEN << >>
    ELSE IF IsBusinessDay(start) THEN << start >> \o BusinessDays(start + 1, periods - 1)
    ELSE BusinessDays(start + 1, periods)

\* stock_data.index and an array of floats as arguments of create_chart_data
IndexOf(rows) == ListArg([i \in 1..Len(rows) |-> DateItem(rows[i].date)])
ArrayOf(values) == ListArg([i \in 1..Len(values) |-> PriceItem(values[i])])

(***************************************************************************)
(* db.session: add, commit, rollback.                                      *)
(***************************************************************************)
SessionAdd(session, obj) == Append(session, obj)

\* variant: the pending objects stay in the session
SessionRollback_keep(session) == session

\* rollback discards what was added and not committed
SessionRollback(session) == << >>

\* an INTEGER PRIMARY KEY left to the database: one more than the largest
\* id in the table
NextId(ids) == IF ids = {} THEN 1 ELSE (CHOOSE m \in ids : \A k \in ids : k <= m) + 1

\* a commit that succeeds writes the pending rows to the table.  The
\* database of the default configuration, SQLite, checks the foreign key
\* of a row only under PRAGMA foreign_keys, which the application never
\* sets: a row is written whether or not its user_id names a user.
CommitRows(table, session) ==
    LET first == NextId({ table[i].id : i \in 1..Len(table) })
    IN  table \o [i \in 1..Len(session) |-> [session[i] EXCEPT !.id = first + i - 1]]

(***************************************************************************)
(* Accounts: the users table, the registration form, the queries of the    *)
(* history routes.                                                         *)
(***************************************************************************)
\* what is typed into a text field: a name, in capitals or not, with or
\* without a trailing newline
Text(name, upper, nl) == [name |-> name, upper |-> upper, nl |-> nl]
Lower(text) == [text EXCEPT !.upper = FALSE]
Strip(text) == [text EXCEPT !.nl = FALSE]
NoText == Text("", FALSE, FALSE)

UserRow(id, username, email) == [id |-> id, username |-> username, email |-> email]

\* load_user: User.query.get(user_id)
load_user(table, user_id) == { u \in table : u.id = user_id }

\* RegistrationForm.validate_username and validate_email: the query each
\* makes; the pattern ^[a-zA-Z0-9_]+$ lets a trailing newline pass
UsernameTaken(table, username) == \E u \in table : u.username = Lower(username)
EmailTaken(table, email) == \E u \in table : u.email = Lower(email)

\* User(username=form.username.data.lower().strip(), email=...)
NewUser(username, email) == UserRow(0, Strip(Lower(username)), Strip(Lower(email)))

\* variant: the columns carry no unique constraint
UniqueViolation_none(table, user) == FALSE

\* username and email are unique=True columns: the INSERT of a row that
\* repeats either raises IntegrityError
UniqueViolation(table, user) ==
    \E u \in table : u.username = user.username \/ u.email = user.email

InsertUser(table, user) ==
    table \cup { [user EXCEPT !.id = NextId({ u.id : u \in table })] }

\* variant: the query filters by id only
FindPrediction_anyuser(table, prediction_id, user_id) ==
    SelectSeq(table, LAMBDA row : row.id = prediction_id)

\* PredictionHistory.query.filter_by(id=prediction_id, user_id=current_user.id)
FindPrediction(table, prediction_id, user_id) ==
    SelectSeq(table, LAMBDA row : row.id = prediction_id /\ row.user_id = user_id)

\* the table without the row of that id
DeletePredictionRow(table, prediction_id) ==
    SelectSeq(table, LAMBDA row : row.id # prediction_id)

\* the rows of a user go with the user: the cascade of User.predictions in
\* routes/auth.py, the bulk delete in app.py
DeleteUserRows(table, user_id) ==
    SelectSeq(table, LAMBDA row : row.user_id # user_id)

(***************************************************************************)
(* Packaging: the key metrics the /predict handler computes.               *)
(***************************************************************************)
\* variant: a forecast that ends where it began is bullish
PackageMetrics_geq(stock_data, future_predictions) ==
    LET historical_prices == ClosePrices(stock_data)
        current_price == historical_prices[Len(historical_prices)]
        predicted_price == future_predictions[Len(future_predictions)]
        first_prediction == future_predictions[1]
    IN  IF IsFinite(current_price) /\ current_price.n = 0
        THEN [error |-> "ZeroDivisionError"]
        ELSE [error |-> "none",
              current_price |-> current_price,
              predicted_price |-> predicted_price,
              change_percent |->
                  RMul(RDiv(RSub(predicted_price, current_price), current_price), R(100)),
              trend |-> IF RGeq(predicted_price, first_prediction)
                        THEN "bullish" ELSE "bearish"]

\* historical_prices is the Close column of the frame as it was fetched
\* (prepare_data's dropna rebinds a local name only)
PackageMetrics(stock_data, future_predictions) ==
    LET historical_prices == ClosePrices(stock_data)
        current_price == historical_prices[Len(historical_prices)]
        predicted_price == future_predictions[Len(future_predictions)]
        first_prediction == future_predictions[1]
    IN  IF IsFinite(current_price) /\ current_price.n = 0
        THEN [error |-> "ZeroDivisionError"]
        ELSE [error |-> "none",
              current_price |-> current_price,
              predicted_price |-> predicted_price,
              change_percent |->
                  RMul(RDiv(RSub(predicted_price, current_price), current_price), R(100)),
              trend |-> IF RGreater(predicted_price, first_prediction)
                        THEN "bullish" ELSE "bearish"]

(***************************************************************************)
(* State.                                                                  *)
(***************************************************************************)
\* the requests in flight; request r is made by the logged-in user UserOf(r)
Runs == {1, 2}
UserOf(r) == r

VARIABLES
    pc,                  \* where each request's handler is
    handler,             \* the /predict handler of the deployed application:
                         \* the blueprint's (routes/main.py) or app.py's
    symbol,              \* the symbol of the request form
    stock_data,          \* the rows fetch_stock_data returned
    prep,                \* what prepare_data returned or raised
    scaler_ref,          \* the request's local name scaler: a MinMaxScaler object
    predictor,           \* the request's local name predictor: a StockPredictor object
    history,             \* what predictor.train returned: the weights it fitted
    test_predictions,
    future_predictions,
    rollout,             \* the windows predict_future fed the network and its outputs
    result,              \* the values handed to prediction.html
    flash,               \* the messages flashed to the user
    steps,               \* the pipeline steps the request has gone through
    scalers,             \* the MinMaxScaler objects created so far
    models,              \* the StockPredictor objects created so far: their weights
    prediction_history,  \* the rows of the prediction_history table
    charts,              \* the chart data handed to prediction.html
    db_session,          \* the objects pending in each request's db.session
    save_log,            \* what the save block of the handler printed
    users,               \* the rows of the users table
    login,               \* the user id in each browser's session, 0 when anonymous
    account,             \* each browser's registration request in flight
    response,            \* the last response of an account or history route
    fn_pc,      \* direct calls of the pure functions: which call has returned
    fn_in,      \* the arguments of the call
    fn_out      \* what it returned

fn_vars == << fn_pc, fn_in, fn_out >>
acct_vars == << users, login, account, response >>
run_vars == << pc, handler, symbol, stock_data, prep, scaler_ref, predictor, history,
               test_predictions, future_predictions, rollout, result, flash,
               steps, scalers, models, prediction_history, charts, db_session,
               save_log >>
vars == << pc, handler, symbol, stock_data, prep, scaler_ref, predictor, history,
           test_predictions, future_predictions, rollout, result, flash,
           steps, scalers, models, prediction_history, charts, db_session,
           save_log, users, login, account, response, fn_pc, fn_in, fn_out >>

\* the browsers: browser r makes request r and is logged in as UserOf(r);
\* the others belong to visitors without an account
Browsers == {1, 2, 3, 4}
Visitors == Browsers \ Runs

\* @login_required: the session names a user and load_user finds the row
Authenticated(b) == login[b] # 0 /\ load_user(users, login[b]) # {}

(***************************************************************************)
(* What fetch_stock_data can return.                                       *)
(***************************************************************************)
Profiles == {"flat", "ramp"}
BaseClose(profile, i) == IF profile = "flat" THEN R(100) ELSE R(100 + (i % 5))

\* a row of the series may carry a defect: a missing, negative or zero
\* Close, or a missing timestamp
DefectKinds == {"nan", "neg", "zero", "nat"}
Defects == { [kind |-> "none", last |-> FALSE] }
               \cup [kind : DefectKinds, last : BOOLEAN]
DefectClose(kind, close) ==
    CASE kind = "nan" -> NaN
      [] kind = "neg" -> R(-5)
      [] kind = "zero" -> R(0)
      [] OTHER -> close

\* L daily rows; the defect, if any, is in the first or in the last row
Series(L, profile, defect) ==
    [i \in 1..L |->
        LET base == BaseClose(profile, i)
            hit == defect.kind # "none" /\ i = (IF defect.last THEN L ELSE 1)
            close == IF hit THEN DefectClose(defect.kind, base) ELSE base
            date == IF hit /\ defect.kind = "nat" THEN NaT ELSE i
        IN  Row(date, base, base, base, close, R(1000))]

\* fetch_stock_data returns None when the symbol has no data
NoData == << >>

FetchResults ==
    { NoData } \cup { Series(L, p, d) : L \in 1..MaxRows, p \in Profiles, d \in Defects }

\* the series two concurrent requests are given
ConcurrentFetchResults ==
    { Series(SEQUENCE_LENGTH + EXTRA_ROWS, "ramp", [kind |-> "none", last |-> FALSE]),
      Series(SEQUENCE_LENGTH + EXTRA_ROWS + 1, "flat", [kind |-> "none", last |-> FALSE]),
      Series(SEQUENCE_LENGTH + EXTRA_ROWS - 1, "ramp", [kind |-> "none", last |-> FALSE]) }

\* request.form symbols: missing, well-formed, longer than 10 characters
Symbols == { [name |-> "", len |-> 0], [name |-> "AAPL", len |-> 4],
             [name |-> "ABCDEFGHIJK", len |-> 11] }
Handlers == {"routes.main", "app"}

(***************************************************************************)
(* Objects.                                                                *)
(***************************************************************************)
\* variant: one module-level object serves every request
NewObjectId_shared(heap) == 1

\* the identity of an object constructed now: distinct from all earlier ones
NewObjectId(heap) == Len(heap) + 1

Store(heap, id, obj) ==
    [i \in 1..(IF id > Len(heap) THEN id ELSE Len(heap)) |->
        IF i = id THEN obj ELSE heap[i]]

\* the weights _build_model leaves in a network that was never fitted
Untrained == [a |-> 0, c |-> 0, b |-> R(0)]

\* a flashed message: its fixed text, the exception text it quotes, and the
\* number of days it names (0: none)
Message(text, detail, days) == [text |-> text, detail |-> detail, days |-> days]

\* routes/main.py flashes one fixed text per try block; app.py has a single
\* try block whose message quotes the exception
ErrorMessage(h, text, exception, days) ==
    IF h = "routes.main" THEN Message(text, "", 0)
    ELSE Message("Prediction failed", exception, days)

(***************************************************************************)
(* The /predict handler, one action per try block.                         *)
(***************************************************************************)
NoResult == [error |-> "not run"]
NoRequest == [pc |-> "idle", username |-> NoText, email |-> NoText]
NoResponse == [browser |-> 0, op |-> "", status |-> 0, flash |-> "", user |-> 0,
               id |-> 0, shown |-> << >>, pending |-> << >>]
NoCharts == [historical |-> << >>, prediction |-> << >>]

RunInit ==
    /\ pc = [r \in Runs |-> "start"]
    /\ handler \in Handlers
    /\ symbol = [r \in Runs |-> ""]
    /\ stock_data = [r \in Runs |-> << >>]
    /\ prep = [r \in Runs |-> NoPrep]
    /\ scaler_ref = [r \in Runs |-> 0]
    /\ predictor = [r \in Runs |-> 0]
    /\ history = [r \in Runs |-> << >>]
    /\ test_predictions = [r \in Runs |-> << >>]
    /\ future_predictions = [r \in Runs |-> << >>]
    /\ rollout = [r \in Runs |-> [inputs |-> << >>, outputs |-> << >>]]
    /\ result = [r \in Runs |-> NoResult]
    /\ flash = [r \in Runs |-> << >>]
    /\ steps = [r \in Runs |-> << >>]
    /\ scalers = << >>
    /\ models = << >>
    /\ prediction_history = << >>
    /\ charts = [r \in Runs |-> NoCharts]
    /\ db_session = [r \in Runs |-> << >>]
    /\ save_log = [r \in Runs |-> ""]
    /\ users = { UserRow(1, Text("alice", FALSE, FALSE), Text("alice@x", FALSE, FALSE)),
                 UserRow(2, Text("bob", FALSE, FALSE), Text("bob@x", FALSE, FALSE)) }
    /\ login = [b \in Browsers |-> IF b \in Runs THEN UserOf(b) ELSE 0]
    /\ account = [b \in Browsers |-> NoRequest]
    /\ response = NoResponse

\* variant: the redirect is made without a message
Abort_silent(r, message, done) ==
    /\ pc' = [pc EXCEPT ![r] = "failed"]
    /\ flash' = flash
    /\ steps' = [steps EXCEPT ![r] = @ \o done \o << "Failed" >>]

\* flash(message, 'error'); return redirect(url_for('main.dashboard'))
Abort(r, message, done) ==
    /\ pc' = [pc EXCEPT ![r] = "failed"]
    /\ flash' = [flash EXCEPT ![r] = Append(@, message)]
    /\ steps' = [steps EXCEPT ![r] = @ \o done \o << "Failed" >>]

\* form validation, fetch_stock_data and the minimum-length check
Start(r, inputs) ==
    /\ pc[r] = "start"
    /\ Authenticated(r)
    /\ \E sym \in Symbols, data \in inputs :
          LET fetched == IF sym.name = "AAPL" THEN data ELSE NoData
          IN  /\ symbol' = [symbol EXCEPT ![r] = sym.name]
              /\ IF sym.len = 0
                 THEN /\ Abort(r, Message("Please provide a stock symbol", "", 0), << >>)
                      /\ UNCHANGED stock_data
                 ELSE IF handler = "routes.main" /\ sym.len > 10
                 THEN /\ Abort(r, Message("Invalid stock symbol", "", 0), << >>)
                      /\ UNCHANGED stock_data
                 ELSE IF Len(fetched) = 0
                 THEN /\ Abort(r, Message("Could not fetch data for symbol", "", 0), << >>)
                      /\ UNCHANGED stock_data
                 ELSE IF Len(fetched) < SEQUENCE_LENGTH
                 THEN /\ Abort(r, Message("Insufficient data. Need at least N days of data",
                                          "", SEQUENCE_LENGTH), << >>)
                      /\ stock_data' = [stock_data EXCEPT ![r] = fetched]
                 ELSE /\ pc' = [pc EXCEPT ![r] = "fetched"]
                      /\ stock_data' = [stock_data EXCEPT ![r] = fetched]
                      /\ UNCHANGED << flash, steps >>
    /\ UNCHANGED << handler, prep, scaler_ref, predictor, history, test_predictions,
                    future_predictions, rollout, result, scalers, models,
                    prediction_history, charts, db_session, save_log >>
    /\ UNCHANGED fn_vars
    /\ UNCHANGED acct_vars

\* prepare_data(stock_data, Config.SEQUENCE_LENGTH)
Prepare(r) ==
    /\ pc[r] = "fetched"
    /\ LET p == prepare_data(stock_data[r], SEQUENCE_LENGTH)
           id == NewObjectId(scalers)
       IN  /\ prep' = [prep EXCEPT ![r] = p]
           /\ IF p.error = "none"
              THEN /\ scalers' = Store(scalers, id, p.scaler)
                   /\ scaler_ref' = [scaler_ref EXCEPT ![r] = id]
                   /\ steps' = [steps EXCEPT ![r] = @ \o p.steps]
                   /\ pc' = [pc EXCEPT ![r] = "prepared"]
                   /\ UNCHANGED flash
              ELSE /\ Abort(r, ErrorMessage(handler, "Error processing stock data",
                                            p.error,
                                            IF p.error = "Insufficient data"
                                            THEN MinRowsNeeded(SEQUENCE_LENGTH) ELSE 0),
                            p.steps)
                   /\ UNCHANGED << scalers, scaler_ref >>
    /\ UNCHANGED << handler, symbol, stock_data, predictor, history, test_predictions,
                    future_predictions, rollout, result, models, prediction_history,
                    charts, db_session, save_log >>
    /\ UNCHANGED fn_vars
    /\ UNCHANGED acct_vars

\* predictor = StockPredictor(...); history = predictor.train(X_train, y_train, ...)
\* returns: the fit leaves some weights in the request's network
Train(r) ==
    /\ pc[r] = "prepared"
    /\ \E w \in Weights :
          LET id == NewObjectId(models)
          IN  /\ models' = Store(models, id, w)
              /\ predictor' = [predictor EXCEPT ![r] = id]
              /\ history' = [history EXCEPT ![r] = w]
    /\ steps' = [steps EXCEPT ![r] = Append(@, "Training")]
    /\ pc' = [pc EXCEPT ![r] = "trained"]
    /\ UNCHANGED << handler, symbol, stock_data, prep, scaler_ref, test_predictions,
                    future_predictions, rollout, result, flash, scalers,
                    prediction_history, charts, db_session, save_log >>
    /\ UNCHANGED fn_vars
    /\ UNCHANGED acct_vars

\* variant: a failed fit is tried again
TrainRaises_retry(r) ==
    /\ pc[r] = "prepared"
    /\ Len(steps[r]) < 6
    /\ steps' = [steps EXCEPT ![r] = Append(@, "Training")]
    /\ UNCHANGED << pc, handler, symbol, stock_data, prep, scaler_ref, predictor, history,
                    test_predictions, future_predictions, rollout, result, flash, scalers,
                    models, prediction_history, charts, db_session, save_log >>
    /\ UNCHANGED fn_vars
    /\ UNCHANGED acct_vars

\* variant: the except branch flashes its message and does not return
TrainRaises_fallthrough(r) ==
    /\ pc[r] = "prepared"
    /\ LET id == NewObjectId(models)
       IN  /\ models' = Store(models, id, Untrained)
           /\ predictor' = [predictor EXCEPT ![r] = id]
    /\ flash' = [flash EXCEPT ![r] = Append(@, ErrorMessage(handler,
                      "Error training prediction model", "training error", 0))]
    /\ steps' = [steps EXCEPT ![r] = @ \o << "Training", "Failed" >>]
    /\ pc' = [pc EXCEPT ![r] = "trained"]
    /\ UNCHANGED << handler, symbol, stock_data, prep, scaler_ref, history,
                    test_predictions, future_predictions, rollout, result, scalers,
                    prediction_history, charts, db_session, save_log >>
    /\ UNCHANGED fn_vars
    /\ UNCHANGED acct_vars

\* the same try block when Keras raises during the fit
TrainRaises(r) ==
    /\ pc[r] = "prepared"
    /\ LET id == NewObjectId(models)
       IN  /\ models' = Store(models, id, Untrained)
           /\ predictor' = [predictor EXCEPT ![r] = id]
    /\ Abort(r, ErrorMessage(handler, "Error training prediction model",
                             "training error", 0), << "Training" >>)
    /\ UNCHANGED << handler, symbol, stock_data, prep, scaler_ref, history,
                    test_predictions, future_predictions, rollout, result, scalers,
                    prediction_history, charts, db_session, save_log >>
    /\ UNCHANGED fn_vars
    /\ UNCHANGED acct_vars

\* predictor.predict(X_test, scaler) when there are test windows, then
\* predictor.predict_future(last_sequence, scaler, days=Config.PREDICTION_DAYS)
Predict(r) ==
    /\ pc[r] = "trained"
    /\ LET w == models[predictor[r]]
           sc == scalers[scaler_ref[r]]
           evaluated == IF Len(prep[r].X_test) > 0 THEN << "Evaluating" >> ELSE << >>
           future == predict_future(prep[r].last_sequence, sc, w,
                                    SEQUENCE_LENGTH, PREDICTION_DAYS)
       IN  /\ test_predictions' = [test_predictions EXCEPT ![r] = predict(prep[r].X_test, sc, w)]
           /\ IF future.error # "none"
              THEN /\ Abort(r, ErrorMessage(handler, "Error generating predictions",
                                            future.error, 0),
                            evaluated \o << "Forecasting" >>)
                   /\ UNCHANGED << future_predictions, rollout >>
              ELSE IF Len(future.predictions) = 0
              THEN /\ Abort(r, ErrorMessage(handler, "Error generating predictions",
                                            "No future predictions generated", 0),
                            evaluated \o << "Forecasting" >>)
                   /\ UNCHANGED << future_predictions, rollout >>
              ELSE /\ future_predictions' = [future_predictions EXCEPT ![r] = future.predictions]
                   /\ rollout' = [rollout EXCEPT ![r] = [inputs |-> future.inputs,
                                                         outputs |-> future.outputs]]
                   /\ steps' = [steps EXCEPT ![r] = @ \o evaluated \o << "Forecasting" >>]
                   /\ pc' = [pc EXCEPT ![r] = "forecast"]
                   /\ UNCHANGED flash
    /\ UNCHANGED << handler, symbol, stock_data, prep, scaler_ref, predictor, history,
                    result, scalers, models, prediction_history, charts, db_session,
                    save_log >>
    /\ UNCHANGED fn_vars
    /\ UNCHANGED acct_vars

\* the same try block when Keras raises in model.predict, either while the
\* test windows are evaluated or during the forecast
PredictRaises(r) ==
    /\ pc[r] = "trained"
    /\ \E in_forecast \in BOOLEAN :
          /\ (~in_forecast) => Len(prep[r].X_test) > 0
          /\ Abort(r, ErrorMessage(handler, "Error generating predictions",
                                   "prediction error", 0),
                   IF ~in_forecast THEN << "Evaluating" >>
                   ELSE (IF Len(prep[r].X_test) > 0 THEN << "Evaluating" >> ELSE << >>)
                        \o << "Forecasting" >>)
    /\ UNCHANGED << handler, symbol, stock_data, prep, scaler_ref, predictor, history,
                    test_predictions, future_predictions, rollout, result, scalers, models,
                    prediction_history, charts, db_session, save_log >>
    /\ UNCHANGED fn_vars
    /\ UNCHANGED acct_vars

\* future dates, chart data, key metrics, db.session.add / commit (or
\* rollback), render_template
Package(r) ==
    /\ pc[r] = "forecast"
    /\ LET m == PackageMetrics(stock_data[r], future_predictions[r])
           last_date == stock_data[r][Len(stock_data[r])].date
       IN  IF last_date = NaT
           THEN \* pd.date_range raises ValueError when start is NaT
                /\ Abort(r, ErrorMessage(handler, "Error preparing chart data",
                                         "ValueError", 0), << "Packaging" >>)
                /\ UNCHANGED << result, prediction_history, charts, db_session, save_log >>
           ELSE IF m.error # "none"
           THEN /\ Abort(r, ErrorMessage(handler, "Error preparing chart data",
                                         m.error, 0), << "Packaging" >>)
                /\ UNCHANGED << result, prediction_history, charts, db_session, save_log >>
           ELSE LET future_dates == BusinessDays(last_date + 1, Len(future_predictions[r]))
                    historical_chart_data ==
                        create_chart_data(IndexOf(stock_data[r]),
                                          ArrayOf(ClosePrices(stock_data[r])),
                                          "Historical Prices")
                    prediction_chart_data ==
                        create_chart_data(ListArg([i \in 1..Len(future_dates) |->
                                                      DateItem(future_dates[i])]),
                                          ArrayOf(future_predictions[r]),
                                          "AI Predictions")
                    prediction_record ==
                        [id |-> 0,
                         user_id |-> UserOf(r),
                         symbol |-> symbol[r],
                         current_price |-> m.current_price,
                         predicted_price |-> m.predicted_price,
                         change_percent |-> m.change_percent,
                         trend |-> m.trend,
                         historical_chart_data |-> historical_chart_data,
                         prediction_chart_data |-> prediction_chart_data]
                    added == SessionAdd(db_session[r], prediction_record)
                IN  /\ result' = [result EXCEPT ![r] = m]
                    /\ charts' = [charts EXCEPT ![r] =
                                      [historical |-> historical_chart_data,
                                       prediction |-> prediction_chart_data]]
                    /\ \E committed \in BOOLEAN :
                          IF committed
                          THEN /\ prediction_history' = CommitRows(prediction_history, added)
                               /\ db_session' = [db_session EXCEPT ![r] = << >>]
                               /\ save_log' = [save_log EXCEPT ![r] = "saved"]
                          ELSE /\ prediction_history' = prediction_history
                               /\ db_session' = [db_session EXCEPT ![r] =
                                                     SessionRollback(added)]
                               /\ save_log' = [save_log EXCEPT ![r] = "could not save"]
                    /\ steps' = [steps EXCEPT ![r] = @ \o << "Packaging", "Done" >>]
                    /\ pc' = [pc EXCEPT ![r] = "done"]
                    /\ UNCHANGED flash
    /\ UNCHANGED << handler, symbol, stock_data, prep, scaler_ref, predictor, history,
                    test_predictions, future_predictions, rollout, scalers, models >>
    /\ UNCHANGED fn_vars
    /\ UNCHANGED acct_vars

Handle(r, inputs) ==
    \/ Start(r, inputs)
    \/ Prepare(r)
    \/ Train(r)
    \/ TrainRaises(r)
    \/ Predict(r)
    \/ PredictRaises(r)
    \/ Package(r)

NoOutput == [X |-> << >>, y |-> << >>, X_train |-> << >>, y_train |-> << >>,
             X_test |-> << >>, future |-> << >>, scaler |-> << >>, scaled |-> << >>,
             cleaned |-> << >>, last_sequence |-> << >>, again |-> << >>,
             chart |-> << >>]
NoCall == [data |-> << >>, S |-> 0, days |-> 0, w |-> << >>, sc |-> << >>,
           frame |-> << >>, dates |-> NoneArg, prices |-> NoneArg, name |-> ""]

FnIdle ==
    /\ fn_pc = "idle"
    /\ fn_in = NoCall
    /\ fn_out = NoOutput

\* one request, any fetched series
Init == RunInit /\ FnIdle
Next == Handle(1, FetchResults)
Spec == Init /\ [][Next]_vars

\* two requests of two users, interleaved between their try blocks
NextConcurrent == \E r \in Runs : Handle(r, ConcurrentFetchResults)
SpecConcurrent == Init /\ [][NextConcurrent]_vars


(***************************************************************************)
(* The account and history routes.  Registration is two steps, the form's  *)
(* validation and the commit, since other requests run between them; the   *)
(* other handlers make one transaction each.                               *)
(***************************************************************************)
\* what visitors type into the registration form: the first two forms
\* give the same username once it is normalised, the first and the third
\* the same email
Forms ==
    { [username |-> Text("carol", FALSE, FALSE), email |-> Text("carol@x", FALSE, FALSE)],
      [username |-> Text("carol", TRUE, TRUE), email |-> Text("dave@x", FALSE, FALSE)],
      [username |-> Text("dave", FALSE, FALSE), email |-> Text("carol@x", TRUE, FALSE)] }

\* the series the request of the account scenarios is given
AccountFetchResults ==
    { Series(SEQUENCE_LENGTH + EXTRA_ROWS, "ramp", [kind |-> "none", last |-> FALSE]) }

Respond(b, values) == response' = [values EXCEPT !.browser = b]

\* register up to form.validate_on_submit()
RegisterValidate(b) ==
    /\ b \in Visitors
    /\ account[b].pc = "idle"
    /\ IF Authenticated(b)
       THEN /\ Respond(b, [NoResponse EXCEPT !.op = "register", !.status = 302,
                                             !.user = login[b]])
            /\ UNCHANGED account
       ELSE \E form \in Forms :
               IF UsernameTaken(users, form.username) \/ EmailTaken(users, form.email)
               THEN /\ Respond(b, [NoResponse EXCEPT !.op = "register", !.status = 200])
                    /\ UNCHANGED account
               ELSE /\ account' = [account EXCEPT ![b] =
                                       [pc |-> "validated", username |-> form.username,
                                        email |-> form.email]]
                    /\ UNCHANGED response
    /\ UNCHANGED << users, login >>
    /\ UNCHANGED run_vars
    /\ UNCHANGED fn_vars

\* register from User(...) on: add, commit, login_user; rollback and
\* 'Registration failed' when anything raises
RegisterCommit(b) ==
    /\ account[b].pc = "validated"
    /\ NextId({ u.id : u \in users }) <= MaxUserId
    /\ LET user == NewUser(account[b].username, account[b].email)
           added == SessionAdd(<< >>, user)
       IN  \E committed \in BOOLEAN :
              IF committed /\ ~UniqueViolation(users, user)
              THEN LET id == NextId({ u.id : u \in users })
                   IN  /\ users' = InsertUser(users, user)
                       /\ login' = [login EXCEPT ![b] = id]
                       /\ Respond(b, [NoResponse EXCEPT
                                         !.op = "register", !.status = 302,
                                         !.flash = "Registration successful!",
                                         !.user = id])
              ELSE /\ UNCHANGED << users, login >>
                   /\ Respond(b, [NoResponse EXCEPT
                                     !.op = "register", !.status = 200,
                                     !.flash = "Registration failed. Please try again.",
                                     !.pending = SessionRollback(added)])
    /\ account' = [account EXCEPT ![b] = NoRequest]
    /\ UNCHANGED run_vars
    /\ UNCHANGED fn_vars

\* view_prediction(prediction_id)
ViewPrediction(b, prediction_id) ==
    /\ Authenticated(b)
    /\ LET found == FindPrediction(prediction_history, prediction_id, login[b])
       IN  IF found = << >>
           THEN Respond(b, [NoResponse EXCEPT !.op = "view", !.status = 404,
                                              !.user = login[b], !.id = prediction_id])
           ELSE Respond(b, [NoResponse EXCEPT !.op = "view", !.status = 200,
                                              !.user = login[b], !.id = prediction_id,
                                              !.shown = << found[1] >>])
    /\ UNCHANGED << users, login, account >>
    /\ UNCHANGED run_vars
    /\ UNCHANGED fn_vars

\* delete_prediction(prediction_id)
DeletePrediction(b, prediction_id) ==
    /\ Authenticated(b)
    /\ LET found == FindPrediction(prediction_history, prediction_id, login[b])
       IN  IF found = << >>
           THEN /\ Respond(b, [NoResponse EXCEPT !.op = "delete", !.status = 404,
                                                 !.user = login[b], !.id = prediction_id])
                /\ UNCHANGED prediction_history
           ELSE \E committed \in BOOLEAN :
                   IF committed
                   THEN /\ prediction_history' =
                              DeletePredictionRow(prediction_history, found[1].id)
                        /\ Respond(b, [NoResponse EXCEPT
                                          !.op = "delete", !.status = 302,
                                          !.flash = "Prediction deleted successfully.",
                                          !.user = login[b], !.id = prediction_id])
                   ELSE /\ UNCHANGED prediction_history
                        /\ Respond(b, [NoResponse EXCEPT
                                          !.op = "delete", !.status = 302,
                                          !.flash = "Error deleting prediction.",
                                          !.user = login[b], !.id = prediction_id])
    /\ UNCHANGED << users, login, account >>
    /\ UNCHANGED << pc, handler, symbol, stock_data, prep, scaler_ref, predictor, history,
                    test_predictions, future_predictions, rollout, result, flash,
                    steps, scalers, models, charts, db_session, save_log >>
    /\ UNCHANGED fn_vars

\* delete_account: the user and the user's predictions in one commit, then
\* logout_user; rollback when anything raises
DeleteAccount(b) ==
    /\ Authenticated(b)
    /\ \E committed \in BOOLEAN :
          IF committed
          THEN /\ prediction_history' = DeleteUserRows(prediction_history, login[b])
               /\ users' = users \ load_user(users, login[b])
               /\ login' = [login EXCEPT ![b] = 0]
               /\ Respond(b, [NoResponse EXCEPT
                                 !.op = "delete_account", !.status = 302,
                                 !.flash = "Account has been deleted.",
                                 !.user = login[b]])
          ELSE /\ UNCHANGED << prediction_history, users, login >>
               /\ Respond(b, [NoResponse EXCEPT
                                 !.op = "delete_account", !.status = 302,
                                 !.flash = "Error deleting account. Please try again.",
                                 !.user = login[b]])
    /\ UNCHANGED account
    /\ UNCHANGED << pc, handler, symbol, stock_data, prep, scaler_ref, predictor, history,
                    test_predictions, future_predictions, rollout, result, flash,
                    steps, scalers, models, charts, db_session, save_log >>
    /\ UNCHANGED fn_vars

InitAccounts == Init /\ handler = "routes.main"

\* registrations and account deletions of every browser
NextAccounts ==
    \/ \E b \in Browsers : RegisterValidate(b)
    \/ \E b \in Browsers : RegisterCommit(b)
    \/ \E b \in Browsers : DeleteAccount(b)
SpecAccounts == InitAccounts /\ [][NextAccounts]_vars

\* one /predict request of user 1 among the history requests and the
\* account deletions of every browser
NextHistory ==
    \/ Handle(1, AccountFetchResults)
    \/ \E b \in Browsers, prediction_id \in 1..MaxId : ViewPrediction(b, prediction_id)
    \/ \E b \in Browsers, prediction_id \in 1..MaxId : DeletePrediction(b, prediction_id)
    \/ \E b \in Browsers : DeleteAccount(b)
SpecHistory == InitAccounts /\ [][NextHistory]_vars

(***************************************************************************)
(* Direct calls of create_sequences, of the split and of predict_future.   *)
(***************************************************************************)
FnValues == { R(0), Frac(1, 2), R(1), NaN }

RECURSIVE SeqsUpTo(_, _)
SeqsUpTo(V, n) ==
    IF n = 0 THEN { << >> }
    ELSE LET shorter == SeqsUpTo(V, n - 1)
         IN  shorter \cup { Append(s, v) : s \in {t \in shorter : Len(t) = n - 1}, v \in V }

\* a series of L distinct finite values
Ramp(L) == [i \in 1..L |-> Frac(i, 100)]

FnSeries == SeqsUpTo(FnValues, MaxLen) \cup { Ramp(L) : L \in 0..MaxRows }
FnSeqLengths == (1..MaxSeq) \cup { SEQUENCE_LENGTH }
FnDays == (-1)..MaxDays
FnScalers == { ScalerFit(<< R(100), R(104) >>), ScalerFit(<< R(100), R(100) >>) }


\* the rows a frame can hold: complete and valid (with a volume of 1000 or
\* of 0), without a Close, with a Close of 0, with a negative Volume
RowKinds == {"ok", "idle", "nanclose", "zeroclose", "negvolume"}
FrameRow(date, kind) ==
    Row(date, R(10), R(10), R(10),
        CASE kind = "nanclose" -> NaN [] kind = "zeroclose" -> R(0) [] OTHER -> R(10),
        CASE kind = "negvolume" -> R(-1) [] kind = "idle" -> R(0) [] OTHER -> R(1000))
FnRows == { FrameRow(date, kind) : date \in 1..3, kind \in RowKinds }
FnFrames == SeqsUpTo(FnRows, MaxFrame)

\* the arguments create_chart_data is called with directly
ChartDateArgs ==
    { NoneArg, ScalarArg }
        \cup { ListArg(items) :
                  items \in SeqsUpTo({ DateItem(1), DateItem(NaT), TextDate(2) }, MaxChart) }
ChartPriceArgs ==
    { NoneArg, ScalarArg }
        \cup { ListArg(items) :
                  items \in SeqsUpTo({ PriceItem(R(1)), PriceItem(R(3)), PriceItem(NaN),
                                       TextPrice }, MaxChart) }

InitFn ==
    /\ RunInit /\ handler = "routes.main"
    /\ \/ /\ fn_pc = "input"
          /\ \E data \in FnSeries, S \in FnSeqLengths :
                fn_in = [NoCall EXCEPT !.data = data, !.S = S]
       \/ /\ fn_pc = "frame"
          /\ \E frame \in FnFrames : fn_in = [NoCall EXCEPT !.frame = frame]
       \/ /\ fn_pc = "chart"
          /\ \E dates \in ChartDateArgs, prices \in ChartPriceArgs :
                fn_in = [NoCall EXCEPT !.dates = dates, !.prices = prices,
                                       !.name = "Historical Prices"]
    /\ fn_out = NoOutput

\* X, y = create_sequences(data, sequence_length)
FnCreateSequences ==
    /\ fn_pc = "input"
    /\ LET r == create_sequences(fn_in.data, fn_in.S)
       IN  fn_out' = [fn_out EXCEPT !.X = r.X, !.y = r.y]
    /\ fn_pc' = "windowed"
    /\ UNCHANGED fn_in
    /\ UNCHANGED run_vars
    /\ UNCHANGED acct_vars

\* the split of prepare_data applied to the windows just created
FnSplit ==
    /\ fn_pc = "windowed"
    /\ Len(fn_out.X) > 0
    /\ LET r == SplitWindows(fn_out.X, fn_out.y)
       IN  fn_out' = [fn_out EXCEPT !.X_train = r.X_train, !.y_train = r.y_train,
                                    !.X_test = r.X_test]
    /\ fn_pc' = "split"
    /\ UNCHANGED fn_in
    /\ UNCHANGED run_vars
    /\ UNCHANGED acct_vars

\* predictor.predict_future(data, scaler, days)
FnPredictFuture ==
    /\ fn_pc = "input"
    /\ \E days \in FnDays, w \in Weights, sc \in FnScalers :
          /\ fn_in' = [fn_in EXCEPT !.days = days, !.w = w, !.sc = sc]
          /\ LET future == predict_future(fn_in.data, sc, w, fn_in.S, days)
             IN  fn_out' = [fn_out EXCEPT !.future = future,
                                          !.last_sequence = future.last_sequence]
    /\ fn_pc' = "forecast"
    /\ UNCHANGED run_vars
    /\ UNCHANGED acct_vars

\* a second predictor.predict_future(data, scaler, days) with the array,
\* the scaler and the predictor of the first call
FnPredictFutureAgain ==
    /\ fn_pc = "forecast"
    /\ fn_out' = [fn_out EXCEPT !.again =
                      predict_future(fn_out.last_sequence, fn_in.sc, fn_in.w,
                                     fn_in.S, fn_in.days)]
    /\ fn_pc' = "again"
    /\ UNCHANGED fn_in
    /\ UNCHANGED run_vars
    /\ UNCHANGED acct_vars

\* scaler = MinMaxScaler(feature_range=(0, 1)); scaler.fit_transform(data),
\* on the finite, non-empty price arrays prepare_data hands it
FnFitTransform ==
    /\ fn_pc = "input"
    /\ Len(fn_in.data) > 0 /\ AllFinite(fn_in.data)
    /\ LET sc == ScalerFit(fn_in.data)
       IN  fn_out' = [fn_out EXCEPT !.scaler = sc, !.scaled = FitTransform(sc, fn_in.data)]
    /\ fn_pc' = "scaled"
    /\ UNCHANGED fn_in
    /\ UNCHANGED run_vars
    /\ UNCHANGED acct_vars

\* last_sequence = scaled_data[-sequence_length:] of the series just scaled,
\* then predictor.predict_future(last_sequence, scaler, days)
FnForecastScaled ==
    /\ fn_pc = "scaled"
    /\ \E days \in FnDays, w \in Weights :
          LET last_sequence == LastN(fn_out.scaled, fn_in.S)
          IN  /\ fn_in' = [fn_in EXCEPT !.days = days, !.w = w, !.sc = fn_out.scaler]
              /\ fn_out' = [fn_out EXCEPT !.future =
                                predict_future(last_sequence, fn_out.scaler, w,
                                               fn_in.S, days)]
    /\ fn_pc' = "rolled"
    /\ UNCHANGED run_vars
    /\ UNCHANGED acct_vars

\* validate_and_clean_data(frame)
FnValidateAndClean ==
    /\ fn_pc = "frame"
    /\ \E r \in validate_and_clean_data(fn_in.frame) :
          fn_out' = [fn_out EXCEPT !.cleaned = r]
    /\ fn_pc' = "cleaned"
    /\ UNCHANGED fn_in
    /\ UNCHANGED run_vars
    /\ UNCHANGED acct_vars

\* create_chart_data(dates, prices, name)
FnCreateChartData ==
    /\ fn_pc = "chart"
    /\ fn_out' = [fn_out EXCEPT !.chart =
                      create_chart_data(fn_in.dates, fn_in.prices, fn_in.name)]
    /\ fn_pc' = "charted"
    /\ UNCHANGED fn_in
    /\ UNCHANGED run_vars
    /\ UNCHANGED acct_vars

NextFn ==
    \/ FnCreateSequences
    \/ FnSplit
    \/ FnPredictFuture
    \/ FnPredictFutureAgain
    \/ FnFitTransform
    \/ FnForecastScaled
    \/ FnValidateAndClean
    \/ FnCreateChartData

SpecFn == InitFn /\ [][NextFn]_vars

(***************************************************************************)
(* Properties of the pure functions (checked under SpecFn).                *)
(***************************************************************************)

\* C1: for a horizon H > 0 and any last window, predict_future either
\* raises or returns exactly H values; it never returns fewer than H.
C1_ForecastLength ==
    (fn_pc = "forecast" /\ fn_in.days > 0) =>
        \/ fn_out.future.error # "none"
        \/ Len(fn_out.future.predictions) = fn_in.days

\* a forecast from a window shorter than sequence_length that holds a NaN
C1_Witness ==
    /\ fn_pc = "forecast"
    /\ fn_in.days = 3
    /\ Len(fn_in.data) > 0 /\ Len(fn_in.data) < fn_in.S
    /\ ~AllFinite(fn_in.data)
    /\ fn_out.future.error = "none"
    /\ Len(fn_out.future.predictions) = 3

\* C2: a series of L finite values yields exactly L - S windows (and as
\* many targets) when L > S, and the empty result when L <= S.
C2_WindowCount ==
    (fn_pc \in {"windowed", "split"} /\ AllFinite(fn_in.data)) =>
        LET L == Len(fn_in.data)
            S == fn_in.S
        IN  /\ Len(fn_out.X) = (IF L > S THEN L - S ELSE 0)
            /\ Len(fn_out.y) = Len(fn_out.X)

C2_Witness ==
    /\ fn_pc = "windowed"
    /\ AllFinite(fn_in.data)
    /\ fn_in.S = 2 /\ Len(fn_in.data) = 4
    /\ Len(fn_out.X) = 2

\* C3: the training windows are the first windows, the test windows are
\* all the others, in their original order: nothing is dropped, nothing is
\* in both, and training followed by test is the original list.
C3_SplitOrder ==
    fn_pc = "split" =>
        LET X == fn_out.X
            k == Len(fn_out.X_train)
        IN  /\ k >= 1 /\ k <= Len(X)
            /\ fn_out.X_train = [i \in 1..k |-> X[i]]
            /\ fn_out.X_test = [i \in 1..(Len(X) - k) |-> X[k + i]]
            /\ fn_out.y_train = [i \in 1..k |-> fn_out.y[i]]
            /\ fn_out.X_train \o fn_out.X_test = X

C3_Witness ==
    /\ fn_pc = "split"
    /\ Len(fn_out.X) = 7
    /\ Len(fn_out.X_train) = 5 /\ Len(fn_out.X_test) = 2
    /\ fn_out.X_test[1] = fn_out.X[6]

\* C4: N >= 1 windows are split into max(1, floor(0.8 N)) training windows
\* and the N - max(1, floor(0.8 N)) others, so one window leaves the test
\* set empty; 70 rows with sequence length 60 give 10 windows, 8 and 2.
C4_SplitSizes ==
    fn_pc = "split" =>
        LET N == Len(fn_out.X)
            floor80 == (4 * N) \div 5
            expected == IF floor80 > 1 THEN floor80 ELSE 1
        IN  /\ N >= 1
            /\ Len(fn_out.X_train) = expected
            /\ Len(fn_out.X_test) = N - expected
            /\ (N = 1 => fn_out.X_test = << >>)
            /\ (Len(fn_in.data) = 70 /\ fn_in.S = 60 /\ AllFinite(fn_in.data)) =>
                   (N = 10 /\ Len(fn_out.X_train) = 8 /\ Len(fn_out.X_test) = 2)

C4_Witness ==
    /\ fn_pc = "split"
    /\ Len(fn_in.data) = 70 /\ fn_in.S = SEQUENCE_LENGTH
    /\ Len(fn_out.X) = 10
    /\ Len(fn_out.X_train) = 8 /\ Len(fn_out.X_test) = 2

IsConstant(data) == Len(data) > 0 /\ \A i \in 1..Len(data) : data[i] = data[1]
FlatScaler(sc) == sc.data_max = sc.data_min

C17_EmptyForecastError ==
    (fn_pc \in {"forecast", "rolled"} /\ fn_in.days <= 0) =>
        fn_out.future.error # "none"

\* values to transform and invert with a fitted scaler
Probes == { R(0), Frac(1, 100), Frac(1, 4), Frac(1, 3), Frac(1, 2), Frac(7, 10), R(1) }

\* C18: a scaler fitted on a series that is not constant maps every value
\* of the series into [0, 1], the minimum to 0 and the maximum to 1; the
\* scaled series is as long as the series; and the inverse of the transform
\* of a price is that price, for every value of the series and every
\* price between its minimum and its maximum.
C18_RoundTrip ==
    (fn_pc = "scaled" /\ ~IsConstant(fn_in.data)) =>
        LET sc == fn_out.scaler
            lo == sc.data_min
            hi == sc.data_max
            within(p) == p.n * lo.d >= lo.n * p.d /\ p.n * hi.d <= hi.n * p.d
        IN  /\ Len(fn_out.scaled) = Len(fn_in.data)
            /\ \A i \in 1..Len(fn_in.data) :
                  LET v == fn_out.scaled[i]
                  IN  /\ v.d > 0 /\ v.n >= 0 /\ v.n <= v.d
                      /\ ScalerInverse(sc, v) = fn_in.data[i]
                      /\ fn_in.data[i] = lo => v = R(0)
                      /\ fn_in.data[i] = hi => v = R(1)
            /\ \A p \in Probes :
                  within(p) =>
                      LET v == ScalerTransform(sc, p)
                      IN  /\ v.d > 0 /\ v.n >= 0 /\ v.n <= v.d
                          /\ ScalerInverse(sc, v) = p

\* seventy prices from 0.01 to 0.70
C18_Witness ==
    /\ fn_pc = "scaled"
    /\ fn_in.data = Ramp(70)
    /\ fn_out.scaled[1] = R(0) /\ fn_out.scaled[2] = Frac(1, 69)
    /\ fn_out.scaled[70] = R(1)
    /\ ScalerInverse(fn_out.scaler, fn_out.scaled[2]) = Frac(2, 100)

\* the 0-based indices i in S..len(data)-1 whose preceding S values are finite
FiniteWindowIndices(data, S) ==
    { i \in S..(Len(data) - 1) : \A j \in (i - S + 1)..i : data[j].d # 0 }

\* C19: every window create_sequences emits belongs to an index i with
\* S <= i <= len(data) - 1: it is data[i-S .. i-1] in order, S values, and
\* its target is data[i], the value right after the window; the windows
\* come in ascending order of i, and when all values are finite there is
\* one for every such i.
C19_WindowContents ==
    fn_pc \in {"windowed", "split"} =>
        LET data == fn_in.data
            S == fn_in.S
            X == fn_out.X
            idx == FiniteWindowIndices(data, S)
            \* the index of the k-th window: the k-th smallest element of idx
            index(k) == CHOOSE i \in idx : Cardinality({ j \in idx : j < i }) = k - 1
        IN  /\ Len(X) = Cardinality(idx) /\ Len(fn_out.y) = Len(X)
            /\ AllFinite(data) => idx = S..(Len(data) - 1)
            /\ \A k \in 1..Len(X) :
                  LET i == index(k)
                  IN  /\ Len(X[k]) = S
                      /\ \A j \in 1..S : X[k][j] = data[i - S + j]
                      /\ fn_out.y[k] = data[i + 1]

\* four values, windows of two: the windows of indices 2 and 3
C19_Witness ==
    /\ fn_pc = "windowed"
    /\ fn_in.data = << R(0), Frac(1, 2), R(1), Frac(1, 2) >> /\ fn_in.S = 2
    /\ fn_out.X = << << R(0), Frac(1, 2) >>, << Frac(1, 2), R(1) >> >>
    /\ fn_out.y = << R(1), Frac(1, 2) >>

\* C20: in a forecast from a scaled series of at least S values the first
\* window is the last S values of the series; step t reports the scaler
\* inverse of the network's output for window t; the next window is window
\* t without its first value followed by that output, not by the reported
\* price; so after k <= S steps the window holds the last S - k values of
\* the series followed by the k outputs in order.
C20_Rollout ==
    (fn_pc = "rolled" /\ Len(fn_in.data) >= fn_in.S) =>
        LET f == fn_out.future
            S == fn_in.S
            n == Len(f.predictions)
            initial == SubSeq(fn_out.scaled, Len(fn_out.scaled) - S + 1, Len(fn_out.scaled))
            buffer(k) == IF k < n THEN f.inputs[k + 1] ELSE f.cur
        IN  /\ f.error = "none"
            /\ n = (IF fn_in.days > 0 THEN fn_in.days ELSE 0)
            /\ Len(f.inputs) = n /\ Len(f.outputs) = n
            /\ buffer(0) = initial
            /\ \A t \in 1..n :
                  /\ f.outputs[t] = ModelPredict(fn_in.w, buffer(t - 1))
                  /\ f.predictions[t] = ScalerInverse(fn_in.sc, f.outputs[t])
                  /\ buffer(t) = Tail(buffer(t - 1)) \o << f.outputs[t] >>
            /\ \A k \in 0..n :
                  k <= S =>
                      buffer(k) = SubSeq(initial, k + 1, S) \o SubSeq(f.outputs, 1, k)

\* three steps from the last two of four prices: after two steps the
\* window holds outputs only, and the prices reported are not the outputs
C20_Witness ==
    /\ fn_pc = "rolled"
    /\ fn_in.S = 2 /\ fn_in.days = 3
    /\ fn_in.data = Ramp(4)
    /\ fn_in.w = [a |-> 1, c |-> -1, b |-> Frac(1, 4)]
    /\ fn_out.future.inputs[1] = << Frac(2, 3), R(1) >>
    /\ fn_out.future.inputs[3] = SubSeq(fn_out.future.outputs, 1, 2)
    /\ fn_out.future.predictions # fn_out.future.outputs

C22_NonFiniteDropped ==
    fn_pc \in {"windowed", "split"} =>
        \A k \in 1..Len(fn_out.X) :
            /\ \A j \in 1..Len(fn_out.X[k]) : fn_out.X[k][j].d # 0
            /\ fn_out.y[k].d # 0

Count(rows, row) == Cardinality({ i \in 1..Len(rows) : rows[i] = row })
Cleaned == fn_pc = "cleaned" /\ fn_out.cleaned.error = "none"

\* C11: validate_and_clean_data never returns a series in which two rows
\* have the same date: when two rows of one date are left after the sort
\* it raises an error.
C11_DuplicateDatesFail ==
    Cleaned =>
        \A i, j \in 1..Len(fn_out.cleaned.rows) :
            fn_out.cleaned.rows[i].date = fn_out.cleaned.rows[j].date => i = j

\* C12: the rows validate_and_clean_data returns are rows of its input,
\* none more often than in the input, in ascending order of their dates;
\* no returned row lacks a field, has a price that is not positive or has a
\* negative volume; and every other row of the input is returned exactly as
\* often as the input holds it.
C12_SanitizerOutput ==
    Cleaned =>
        LET in == fn_in.frame
            out == fn_out.cleaned.rows
            bad(row) == \/ row.open.d = 0 \/ row.high.d = 0 \/ row.low.d = 0
                        \/ row.close.d = 0 \/ row.volume.d = 0
                        \/ row.open.n <= 0 \/ row.high.n <= 0 \/ row.low.n <= 0
                        \/ row.close.n <= 0 \/ row.volume.n < 0
        IN  /\ \A i \in 1..Len(out) :
                  /\ Count(in, out[i]) >= Count(out, out[i])
                  /\ Count(in, out[i]) >= 1
                  /\ ~bad(out[i])
            /\ \A i, j \in 1..Len(out) : i < j => out[i].date <= out[j].date
            /\ \A i \in 1..Len(in) :
                  IF bad(in[i]) THEN Count(out, in[i]) = 0
                  ELSE Count(out, in[i]) = Count(in, in[i])

\* three rows given in descending order of their dates, the one of date 2
\* with a Close of 0: the other two are returned, in ascending order
C12_Witness ==
    /\ Cleaned
    /\ fn_in.frame = << FrameRow(3, "ok"), FrameRow(2, "zeroclose"), FrameRow(1, "idle") >>
    /\ fn_out.cleaned.rows = << FrameRow(1, "idle"), FrameRow(3, "ok") >>

(***************************************************************************)
(* Properties of one request (checked under Spec).                         *)
(***************************************************************************)
Attempted(r) == prep[r].error # "not run"

\* C5: when fewer than sequence_length + 10 rows are left after the rows
\* with missing values are dropped, prepare_data raises "Insufficient data"
\* and yields no windows, scaler or last sequence; with sequence_length + 10
\* rows or more it does not raise that error.
C5_InsufficientRows ==
    \A r \in Runs :
        Attempted(r) =>
            LET remaining == Len(DropNa(stock_data[r]))
            IN  /\ remaining < SEQUENCE_LENGTH + 10 =>
                    /\ prep[r].error = "Insufficient data"
                    /\ prep[r].X_train = << >> /\ prep[r].X_test = << >>
                    /\ prep[r].y_train = << >> /\ prep[r].last_sequence = << >>
                    /\ prep[r].scaler = << >> /\ scaler_ref[r] = 0
                    /\ pc[r] = "failed"
                /\ remaining >= SEQUENCE_LENGTH + 10 =>
                    prep[r].error # "Insufficient data"

\* 70 fetched rows, one of them without a Close: 69 are left
C5_Witness ==
    /\ Len(stock_data[1]) = 70
    /\ Len(DropNa(stock_data[1])) = 69
    /\ prep[1].error = "Insufficient data"
    /\ pc[1] = "failed"

\* C6: every row with a non-positive Open, High, Low or Close is removed
\* before the series is scaled and windowed, and the run fails with an
\* insufficient-data error when fewer than 70 rows then remain.
PositiveRow(row) ==
    /\ RGreater(row.open, R(0)) /\ RGreater(row.high, R(0))
    /\ RGreater(row.low, R(0)) /\ RGreater(row.close, R(0))

C6_NonPositiveRemoved ==
    \A r \in Runs :
        Attempted(r) =>
            /\ \A i \in 1..Len(prep[r].prices) : RGreater(prep[r].prices[i], R(0))
            /\ Len(SelectSeq(stock_data[r], PositiveRow)) < SEQUENCE_LENGTH + 10 =>
                   prep[r].error = "Insufficient data"

\* the steps of tr before its outcome
StepsBeforeFailed(tr) ==
    IF Len(tr) > 0 /\ tr[Len(tr)] = "Failed" THEN SubSeq(tr, 1, Len(tr) - 1) ELSE tr
IsPrefix(a, b) == Len(a) <= Len(b) /\ a = SubSeq(b, 1, Len(a))
WithoutEvaluating(order) == SelectSeq(order, LAMBDA step : step # "Evaluating")
Follows(tr, order) ==
    \/ IsPrefix(StepsBeforeFailed(tr), order)
    \/ IsPrefix(StepsBeforeFailed(tr), WithoutEvaluating(order))

NoRepeat(tr) == \A i, j \in 1..Len(tr) : tr[i] = tr[j] => i = j

\* C9: once a step of a request has failed the request is over: it stays
\* failed with its one error message, nothing of it changes any more, and
\* no step, failed or not, is ever executed a second time.
C9_NoRetry ==
    [][\A r \in Runs :
          /\ NoRepeat(steps[r]')
          /\ IsPrefix(steps[r], steps[r]')
          /\ (pc[r] # "failed" /\ pc[r]' = "failed") =>
                 /\ Len(flash[r]') = Len(flash[r]) + 1
                 /\ steps[r]'[Len(steps[r]')] = "Failed"
          /\ pc[r] = "failed" =>
                 /\ pc[r]' = "failed"
                 /\ steps[r]' = steps[r]
                 /\ flash[r]' = flash[r]
                 /\ future_predictions[r]' = future_predictions[r]
                 /\ result[r]' = result[r]
      ]_vars

\* a request that failed while its network was fitted
C9_Witness ==
    /\ pc[1] = "failed"
    /\ steps[1] = << "Sanitizing", "Scaling", "Windowing", "Training", "Failed" >>
    /\ Len(flash[1]) = 1
    /\ result[1] = NoResult

\* C13: the trend of a packaged result is "bullish" when the last forecast
\* value is strictly greater than the first one and "bearish" otherwise,
\* equality included; it is never anything else.
C13_Trend ==
    \A r \in Runs :
        pc[r] = "done" =>
            LET first == future_predictions[r][1]
                last == future_predictions[r][Len(future_predictions[r])]
                rising == /\ first.d # 0 /\ last.d # 0
                          /\ last.n * first.d > first.n * last.d
            IN  /\ result[r].trend \in {"bullish", "bearish"}
                /\ result[r].trend = "bullish" <=> rising
                /\ result[r].trend = "bearish" <=> ~rising

\* a forecast of thirty equal values is reported as bearish
C13_Witness ==
    /\ pc[1] = "done"
    /\ Len(future_predictions[1]) = PREDICTION_DAYS
    /\ future_predictions[1][PREDICTION_DAYS] = future_predictions[1][1]
    /\ result[1].trend = "bearish"

\* C14: the current price of a packaged result is the last value of the
\* series the scaler and the network were fitted on, the predicted price is
\* the last forecast value, and the percent change is
\* (predicted - current) / current * 100.
C14_CurrentIsLastSanitized ==
    \A r \in Runs :
        pc[r] = "done" =>
            LET trained_on == prep[r].prices
                current == trained_on[Len(trained_on)]
                predicted == future_predictions[r][Len(future_predictions[r])]
            IN  /\ result[r].current_price = current
                /\ result[r].predicted_price = predicted
                /\ result[r].change_percent
                       = RMul(RDiv(RSub(predicted, current), current), R(100))

\* the symbol of request r passed the form validation, so that
\* fetch_stock_data was called
Fetched(r) ==
    /\ pc[r] # "start"
    /\ symbol[r] # ""
    /\ handler = "routes.main" =>
           (CHOOSE sym \in Symbols : sym.name = symbol[r]).len <= 10

\* C15: when fetch_stock_data returns no data the request ends failed with
\* one message to the user ("Could not fetch data"); prepare_data is not
\* called, no scaler or network is created, nothing is forecast and no
\* record is saved.
C15_NoData ==
    \A r \in Runs :
        (Fetched(r) /\ stock_data[r] = NoData) =>
            /\ pc[r] = "failed"
            /\ flash[r] = << Message("Could not fetch data for symbol", "", 0) >>
            /\ steps[r] = << "Failed" >>
            /\ prep[r] = NoPrep
            /\ scaler_ref[r] = 0 /\ predictor[r] = 0
            /\ test_predictions[r] = << >> /\ future_predictions[r] = << >>
            /\ result[r] = NoResult
            /\ \A i \in 1..Len(prediction_history) :
                   prediction_history[i].user_id # UserOf(r)

C15_Witness ==
    /\ symbol[1] = "AAPL"
    /\ stock_data[1] = NoData
    /\ pc[1] = "failed"
    /\ Len(flash[1]) = 1 /\ flash[1][1].text = "Could not fetch data for symbol"

\* request r was aborted for want of rows: by the handler's own length
\* check or by prepare_data's
TooFewRows(r) ==
    /\ pc[r] = "failed"
    /\ stock_data[r] # NoData
    /\ \/ prep[r] = NoPrep /\ Len(stock_data[r]) < SEQUENCE_LENGTH
       \/ prep[r].error = "Insufficient data"

\* C16: a request aborted because fewer than sequence_length + 10 usable
\* rows are available shows the user a message that names a minimum
\* number of days, whatever the number of rows below that minimum.
C16_MessageNamesMinimum ==
    \A r \in Runs :
        TooFewRows(r) =>
            /\ Len(flash[r]) = 1
            /\ flash[r][1].days # 0

\* the number of windows the complete rows of request r give
WindowsOf(r) ==
    LET usable == SelectSeq(stock_data[r], LAMBDA row : ~RowHasNaN(row))
    IN  IF Len(usable) > SEQUENCE_LENGTH THEN Len(usable) - SEQUENCE_LENGTH ELSE 0

\* C23: a request whose series gives no window fails in prepare_data, or
\* before it, with an insufficient-data error; no StockPredictor is created
\* for it and nothing is trained, forecast or saved; a request for which a
\* StockPredictor is created has at least one training window.
C23_NoWindows ==
    \A r \in Runs :
        /\ (pc[r] \notin {"start", "fetched"} /\ stock_data[r] # NoData
                /\ WindowsOf(r) = 0) =>
               /\ pc[r] = "failed"
               /\ \/ prep[r] = NoPrep /\ Len(stock_data[r]) < SEQUENCE_LENGTH
                  \/ prep[r].error \in {"Insufficient data", "No sequences created",
                                        "No training data created"}
               /\ prep[r].X_train = << >>
               /\ predictor[r] = 0 /\ history[r] = << >>
               /\ future_predictions[r] = << >> /\ result[r] = NoResult
        /\ predictor[r] # 0 => Len(prep[r].X_train) >= 1

\* sixty complete rows pass the handler's check and give no window
C23_Witness ==
    /\ Len(stock_data[1]) = SEQUENCE_LENGTH
    /\ WindowsOf(1) = 0
    /\ prep[1].error = "Insufficient data"
    /\ pc[1] = "failed" /\ predictor[1] = 0

\* C24: when the handler calls predictor.train the training set holds at
\* least two windows, and holds as many targets as windows.
C24_TrainingSetSize ==
    \A r \in Runs :
        (predictor[r] # 0 \/ pc[r] = "prepared") =>
            /\ Len(prep[r].X_train) >= 2
            /\ Len(prep[r].y_train) = Len(prep[r].X_train)

\* the smallest series that is trained on: 70 rows, 10 windows, 8 to train
C24_Witness ==
    /\ Len(stock_data[1]) = SEQUENCE_LENGTH + 10
    /\ pc[1] = "trained" /\ predictor[1] # 0
    /\ Len(prep[1].X_train) = 8

\* the three-point series create_chart_data returns when it fails
Placeholder(name) ==
    [labels |-> << [kind |-> "ymd", y |-> 2025, m |-> 1, d |-> 1],
                   [kind |-> "ymd", y |-> 2025, m |-> 1, d |-> 2],
                   [kind |-> "ymd", y |-> 2025, m |-> 1, d |-> 3] >>,
     prices |-> << R(100), R(102), R(101) >>,
     name |-> [base |-> name, suffix |-> " (Error)"],
     min_price |-> R(100), max_price |-> R(102), avg_price |-> R(101)]

\* a call of create_chart_data whose body raises: an argument is None, has
\* no items to iterate or is empty, or one of the dates it formats is NaT
ChartFails(dates, prices) ==
    \/ dates.kind # "list" \/ prices.kind # "list"
    \/ dates.items = << >> \/ prices.items = << >>
    \/ \E i \in 1..Len(dates.items) :
          i <= Len(prices.items) /\ dates.items[i].kind = "nat"

\* C27: create_chart_data returns a value for every argument: when its
\* body raises, the three-point placeholder named "<name> (Error)", and
\* otherwise a series under the name it was given.  A request whose index
\* holds a NaT before its last row is completed as successful with the
\* placeholder as its historical chart, and the record saved for it holds
\* that placeholder.
C27_ChartFallback ==
    /\ fn_pc = "charted" =>
          IF ChartFails(fn_in.dates, fn_in.prices)
          THEN fn_out.chart = Placeholder(fn_in.name)
          ELSE /\ fn_out.chart.name = [base |-> fn_in.name, suffix |-> ""]
               /\ Len(fn_out.chart.labels) = Len(fn_out.chart.prices)
               /\ Len(fn_out.chart.labels) <= Len(fn_in.dates.items)
               /\ Len(fn_out.chart.labels) <= Len(fn_in.prices.items)
               /\ Len(fn_out.chart.labels) \in
                      {Len(fn_in.dates.items), Len(fn_in.prices.items)}
    /\ \A r \in Runs :
          pc[r] = "done" =>
              /\ charts[r].historical =
                     IF \E i \in 1..Len(stock_data[r]) : stock_data[r][i].date = NaT
                     THEN Placeholder("Historical Prices")
                     ELSE [labels |-> charts[r].historical.labels,
                           prices |-> [i \in 1..Len(stock_data[r]) |-> stock_data[r][i].close],
                           name |-> [base |-> "Historical Prices", suffix |-> ""],
                           min_price |-> charts[r].historical.min_price,
                           max_price |-> charts[r].historical.max_price,
                           avg_price |-> charts[r].historical.avg_price]
              /\ charts[r].prediction.name = [base |-> "AI Predictions", suffix |-> ""]
              /\ charts[r].prediction.prices = future_predictions[r]
              /\ flash[r] = << >>
              /\ save_log[r] = "saved" =>
                     \E i \in 1..Len(prediction_history) :
                         /\ prediction_history[i].user_id = UserOf(r)
                         /\ prediction_history[i].historical_chart_data
                                = charts[r].historical
                         /\ prediction_history[i].prediction_chart_data
                                = charts[r].prediction

\* a request on 70 rows the first of which has no timestamp: done, and its
\* saved record holds the placeholder in place of the 70 prices
C27_Witness ==
    /\ pc[1] = "done" /\ save_log[1] = "saved"
    /\ Len(stock_data[1]) = 70 /\ stock_data[1][1].date = NaT
    /\ Len(prediction_history) = 1
    /\ prediction_history[1].historical_chart_data.name.suffix = " (Error)"
    /\ Len(prediction_history[1].historical_chart_data.prices) = 3
    /\ Len(prediction_history[1].prediction_chart_data.prices) = PREDICTION_DAYS

\* C28: when the commit of the prediction record fails the session is
\* rolled back: nothing stays pending in it and the table holds no record
\* of the request; the request is completed all the same: it renders its
\* metrics and charts, flashes no error and is not failed.
C28_SaveFailure ==
    \A r \in Runs :
        /\ db_session[r] = << >>
        /\ save_log[r] = "could not save" =>
              /\ pc[r] = "done"
              /\ steps[r][Len(steps[r])] = "Done"
              /\ flash[r] = << >>
              /\ \A i \in 1..Len(prediction_history) :
                     prediction_history[i].user_id # UserOf(r)
              /\ result[r].error = "none"
              /\ result[r].predicted_price
                     = future_predictions[r][Len(future_predictions[r])]
              /\ charts[r].historical.name.base = "Historical Prices"
              /\ charts[r].prediction.prices = future_predictions[r]
        /\ save_log[r] = "saved" =>
              \E i \in 1..Len(prediction_history) :
                  /\ prediction_history[i].user_id = UserOf(r)
                  /\ prediction_history[i].id = i

C28_Witness ==
    /\ save_log[1] = "could not save"
    /\ pc[1] = "done"
    /\ prediction_history = << >>
    /\ result[1].error = "none"

(***************************************************************************)
(* Properties of the history routes (checked under SpecHistory).           *)
(***************************************************************************)
\* the rows of the table with that id
RowsWithId(table, id) == { table[i] : i \in { k \in 1..Len(table) : table[k].id = id } }

\* C25: a view or delete request for a record that is not the requester's
\* own gets a 404, shows nothing and leaves the table as it is; a view by
\* the owner shows that record, a delete by the owner removes that record
\* and no other; and a record leaves the table only by its owner's delete
\* request or by the deletion of its owner's account.
C25_OwnerOnly ==
    [][ /\ (response' # response /\ response'.op \in {"view", "delete"}) =>
              LET b == response'.browser
                  own == { row \in RowsWithId(prediction_history, response'.id) :
                              row.user_id = login[b] }
              IN  /\ response'.user = login[b]
                  /\ IF own = {}
                     THEN /\ response'.status = 404
                          /\ response'.shown = << >>
                          /\ prediction_history' = prediction_history
                     ELSE IF response'.op = "view"
                     THEN /\ response'.status = 200
                          /\ Len(response'.shown) = 1
                          /\ response'.shown[1] \in own
                          /\ prediction_history' = prediction_history
                     ELSE /\ response'.status = 302
                          /\ \/ prediction_history' = prediction_history
                             \/ Range(prediction_history')
                                  = Range(prediction_history) \ own
        /\ \A row \in Range(prediction_history) \ Range(prediction_history') :
              /\ response'.op \in {"delete", "delete_account"}
              /\ response'.user = row.user_id
              /\ login[response'.browser] = row.user_id
      ]_vars

\* user 2 asked to delete a record of user 1: 404, and the record is there
C25_Witness ==
    /\ response.op = "delete" /\ response.browser = 2 /\ response.status = 404
    /\ login[2] = 2
    /\ \E row \in Range(prediction_history) :
          row.id = response.id /\ row.user_id = 1

\* C29: every row of prediction_history names a user of the users table
C29_RecordsHaveUsers ==
    \A row \in Range(prediction_history) : load_user(users, row.user_id) # {}

(***************************************************************************)
(* Properties of registration (checked under SpecAccounts).                *)
(***************************************************************************)
Normalised(text) == [name |-> text.name, upper |-> FALSE, nl |-> FALSE]

\* C26: no two rows of users share an id, a username or an email.  A
\* registration that has passed the form's validation and whose username
\* or email is in the table by the time it commits adds nothing, logs
\* nobody in, leaves nothing pending and answers 'Registration failed.
\* Please try again.'; every other registration either fails the same way
\* or adds exactly the one row of its form.
C26_UniqueUsers ==
    /\ [](\A u1, u2 \in users :
              (u1.id = u2.id \/ u1.username = u2.username \/ u1.email = u2.email)
                  => u1 = u2)
    /\ [][ \A b \in Browsers :
              (account[b].pc = "validated" /\ account'[b].pc = "idle") =>
                  LET username == Normalised(account[b].username)
                      email == Normalised(account[b].email)
                      taken == \E u \in users : u.username = username \/ u.email = email
                      failed == /\ users' = users
                                /\ login' = login
                                /\ response'.browser = b
                                /\ response'.flash = "Registration failed. Please try again."
                                /\ response'.pending = << >>
                      added == /\ \E u \in users' \ users :
                                     /\ users' = users \cup {u}
                                     /\ u.username = username /\ u.email = email
                                     /\ login' = [login EXCEPT ![b] = u.id]
                               /\ response'.browser = b
                               /\ response'.flash = "Registration successful!"
                  IN  IF taken THEN failed ELSE (failed \/ added)
          ]_vars

\* two visitors sent the same form and both passed its validation; the
\* first has committed and is logged in, the second is about to commit
C26_Witness ==
    /\ account[3].pc = "idle" /\ login[3] # 0
    /\ \E u \in users : u.id = login[3] /\ u.username = Text("carol", FALSE, FALSE)
    /\ account[4].pc = "validated"
    /\ account[4].username = Text("carol", FALSE, FALSE)

(***************************************************************************)
(* Properties of two concurrent requests (checked under SpecConcurrent).   *)
(***************************************************************************)
\* the forecast of a request that runs alone on rows and fits weights w
SoloForecast(rows, w) ==
    LET p == prepare_data(rows, SEQUENCE_LENGTH)
    IN  predict_future(p.last_sequence, p.scaler, w, SEQUENCE_LENGTH,
                       PREDICTION_DAYS).predictions

\* C10: two interleaved requests never hold the same scaler or the same
\* predictor object; a step of one request changes neither the other
\* request's values nor the objects the other request holds; and the
\* forecast and the metrics of each request are what the request yields
\* alone from its own series and its own fitted weights.
C10_Isolation ==
    [][\A r \in Runs :
          /\ \A r2 \in Runs \ {r} :
                /\ scaler_ref[r]' # 0 => scaler_ref[r]' # scaler_ref[r2]'
                /\ predictor[r]' # 0 => predictor[r]' # predictor[r2]'
          /\ pc[r]' = pc[r] =>
                /\ stock_data[r]' = stock_data[r] /\ prep[r]' = prep[r]
                /\ scaler_ref[r]' = scaler_ref[r] /\ predictor[r]' = predictor[r]
                /\ history[r]' = history[r]
                /\ test_predictions[r]' = test_predictions[r]
                /\ future_predictions[r]' = future_predictions[r]
                /\ result[r]' = result[r] /\ flash[r]' = flash[r]
                /\ scaler_ref[r] # 0 => scalers[scaler_ref[r]]' = scalers[scaler_ref[r]]
                /\ predictor[r] # 0 => models[predictor[r]]' = models[predictor[r]]
          /\ (pc[r] = "trained" /\ pc[r]' = "forecast") =>
                future_predictions[r]' = SoloForecast(stock_data[r], history[r])
          /\ (pc[r] = "forecast" /\ pc[r]' = "done") =>
                /\ future_predictions[r]' = future_predictions[r]
                /\ result[r]' = PackageMetrics(stock_data[r], future_predictions[r])
      ]_vars

\* both requests done, on different series with different weights, the
\* second one prepared and fitted between the first one's fit and forecast
C10_Witness ==
    /\ pc[1] = "done" /\ pc[2] = "done"
    /\ stock_data[1] # stock_data[2]
    /\ history[1] # history[2]
    /\ predictor[1] = 1 /\ predictor[2] = 2
    /\ scaler_ref[1] = 2 /\ scaler_ref[2] = 1

====
